---- MODULE Spec2Model ----
(***************************************************************************)
(* The request-dispatch pipeline of wsgiservice.application.Application:   *)
(* routing, method resolution, conditional-request evaluation, parameter   *)
(* binding and validation, handler invocation and header merge.            *)
(*                                                                         *)
(* Encoding of Python values:                                              *)
(*   str            a sequence of one-character strings                    *)
(*   None (a str)   the one-element sequence <<"None">>                    *)
(*   dict           a function whose DOMAIN is the set of keys             *)
(*   datetime       a positive integer; None is NoDate = 0                 *)
(*   a dict object  an identifier into the variable heap, so that two      *)
(*                  references to one dict see each other's writes         *)
(***************************************************************************)
EXTENDS Integers, Sequences, FiniteSets, TLC

VARIABLES
    workload,       \* the class of requests the hosting layer sends in this run
    pc,             \* position of the pipeline: idle, routing, resolve, conditions, invoke, done
    req,            \* the request being handled (environ / webob.Request)
    res,            \* the resource type the router matched, or NoInstance
    path_params,    \* path parameters the router extracted
    instance,       \* the resource instance created by res(), or NoInstance
    method,         \* the resolved handler name, or NoMethod
    default_headers,\* the ETag / Last-Modified dict of _handle_conditions
    calls,          \* the calls made through _call_dynamic_method, in order
    response,       \* the Response produced, or NoResponse
    outcome,        \* "none", "response" or "raised" (a ValidationException left __call__)
    heap,           \* the header dicts: the shared default arguments and the request's own
    earlier,        \* the response of the previous request, as the hosting layer keeps it
    threads,        \* the pipeline runs of the server's threads, when it runs several
    raw,            \* the value a get_etag capability returned
    stripped        \* the computed ETag after etag.replace('"', '')

vars == <<workload, pc, req, res, path_params, instance, method, default_headers,
          calls, response, outcome, heap, earlier, threads, raw, stripped>>

\* what a single pipeline run on one thread never touches
aside == <<threads, raw, stripped>>

\* the locals of the single pipeline run
single == <<pc, req, res, path_params, instance, method, default_headers, calls,
            response, outcome>>

----------------------------------------------------------------------------
(* Bounds of the model *)

MaxValueLen == 2    \* longest parameter value
MaxDate == 3        \* timestamps range over 1..MaxDate

----------------------------------------------------------------------------
(* Python values *)

None == <<"None">>
NoDate == 0
NoMethod == ""
NoInstance == ""
EmptyDict == <<>>

Truthy(v) == v /= None /\ v /= <<>>

Quote == "\""

RECURSIVE StrReplaceQuote(_)
\* s.replace('"', '')
StrReplaceQuote(s) ==
    IF s = <<>> THEN <<>>
    ELSE IF Head(s) = Quote THEN StrReplaceQuote(Tail(s))
    ELSE <<Head(s)>> \o StrReplaceQuote(Tail(s))

----------------------------------------------------------------------------
(* Regular expressions, as the re module matches them.  A pattern is a     *)
(* syntax tree; Ends(r, s, i) is the set of positions at which a match of  *)
(* r that starts at position i of s can end.                               *)

Cls(S) == [op |-> "cls", set |-> S]
Plus(r) == [op |-> "plus", l |-> r]
Cat(a, b) == [op |-> "cat", l |-> a, r |-> b]
Alt(a, b) == [op |-> "alt", l |-> a, r |-> b]
Bol == [op |-> "bol"]
Eol == [op |-> "eol"]

RECURSIVE Ends(_, _, _)
RECURSIVE PlusClosure(_, _, _)

\* the positions reachable from the set S by further repetitions of r
PlusClosure(r, s, S) ==
    LET N == S \cup UNION {Ends(r, s, j) : j \in S}
    IN  IF N = S THEN S ELSE PlusClosure(r, s, N)

Ends(r, s, i) ==
    CASE r.op = "cls"  -> IF i <= Len(s) /\ s[i] \in r.set THEN {i + 1} ELSE {}
      [] r.op = "bol"  -> IF i = 1 THEN {i} ELSE {}
         \* '$' matches at the end of the string and just before a newline
         \* that is the last character
      [] r.op = "eol"  -> IF i = Len(s) + 1 \/ (i = Len(s) /\ s[i] = "\n")
                          THEN {i} ELSE {}
      [] r.op = "cat"  -> UNION {Ends(r.r, s, j) : j \in Ends(r.l, s, i)}
      [] r.op = "alt"  -> Ends(r.l, s, i) \cup Ends(r.r, s, i)
      [] r.op = "plus" -> PlusClosure(r.l, s, Ends(r.l, s, i))

\* re.search(r, s): a match starting anywhere
re_search(r, s) == \E i \in 1..(Len(s) + 1) : Ends(r, s, i) /= {}

\* the pattern '^' + re + '$' parses to: alternation binds weakest, so the
\* anchors attach to the first and to the last alternative only
AnchoredPattern(re) ==
    IF re.op = "alt" THEN Alt(Cat(Bol, re.l), Cat(re.r, Eol))
    ELSE Cat(Bol, Cat(re, Eol))

Digits == Plus(Cls({"1"}))           \* [0-9]+
AorB == Alt(Cls({"a"}), Cls({"b"}))  \* a|b

----------------------------------------------------------------------------
(* The registered resource types.  Each is given by its attributes (the    *)
(* callables and the other attributes), the declared parameters of each    *)
(* callable (self first), the _validations of its methods and of the       *)
(* class, and what its capabilities return.                                *)

Rule(has_re, re) == [has_re |-> has_re, re |-> re]
Payload(text) == [kind |-> "payload", msg |-> text]
ErrorBody(text) == [kind |-> "error", msg |-> text]
NoBody == [kind |-> "none", msg |-> ""]
Plain(body) == [mini |-> FALSE, body |-> body, headers |-> EmptyDict]
MiniResponse(body, headers) == [mini |-> TRUE, body |-> body, headers |-> headers]

Doc ==
    [callables |-> {"GET", "PUT", "get_etag", "get_last_modified"},
     others |-> {},
     args |-> [m \in {"GET", "PUT", "get_etag", "get_last_modified"} |->
                 CASE m = "GET" -> <<"self", "id">>
                   [] m = "PUT" -> <<"self", "id", "request">>
                   [] m = "get_etag" -> <<"self", "id">>
                   [] m = "get_last_modified" -> <<"self">>],
     mvalid |-> EmptyDict,
     has_cvalid |-> TRUE,
     cvalid |-> [p \in {"id"} |-> Rule(TRUE, Digits)],
     etag_raw |-> <<Quote, "a">>,
     last_modified |-> 2,
     returns |-> [m \in {"GET", "PUT"} |->
                 IF m = "GET" THEN Plain(Payload("doc"))
                 ELSE MiniResponse(Payload("saved"),
                                   [h \in {"Last-Modified"} |-> <<>>])]]

Feed ==
    [callables |-> {"GET", "get_last_modified"},
     others |-> {"HEAD", "TITLE"},
     args |-> [m \in {"GET", "get_last_modified"} |-> <<"self">>],
     mvalid |-> EmptyDict,
     has_cvalid |-> FALSE,
     cvalid |-> EmptyDict,
     etag_raw |-> None,
     last_modified |-> 2,
     returns |-> [m \in {"GET"} |-> Plain(Payload("feed"))]]

Item ==
    [callables |-> {"POST", "DELETE", "get_etag", "get_last_modified"},
     others |-> {},
     args |-> [m \in {"POST", "DELETE", "get_etag", "get_last_modified"} |->
                 CASE m = "POST" -> <<"self", "id", "name">>
                   [] m = "DELETE" -> <<"self", "id">>
                   [] OTHER -> <<"self">>],
     mvalid |-> [m \in {"POST"} |-> [p \in {"id"} |-> Rule(TRUE, Digits)]],
     has_cvalid |-> TRUE,
     cvalid |-> [p \in {"id", "name"} |->
                   IF p = "id" THEN Rule(TRUE, AorB) ELSE Rule(FALSE, Bol)],
     etag_raw |-> <<>>,
     last_modified |-> NoDate,
     returns |-> [m \in {"POST", "DELETE"} |-> Plain(Payload("item"))]]

Note ==
    [callables |-> {"GET", "HEAD", "DELETE", "get_etag"},
     others |-> {},
     args |-> [m \in {"GET", "HEAD", "DELETE", "get_etag"} |->
                 CASE m = "GET" -> <<"self", "id", "request">>
                   [] m = "DELETE" -> <<"self", "id">>
                   [] OTHER -> <<"self">>],
     mvalid |-> EmptyDict,
     has_cvalid |-> FALSE,
     cvalid |-> EmptyDict,
     etag_raw |-> <<"b">>,
     last_modified |-> NoDate,
     returns |-> [m \in {"GET", "HEAD", "DELETE"} |->
                 CASE m = "GET" ->
                        MiniResponse(Payload("note"), [h \in {"ETag"} |-> <<"c">>])
                   [] m = "DELETE" -> MiniResponse(Payload("gone"), EmptyDict)
                   [] OTHER -> Plain(Payload("note"))]]

ResourceTypes == {"Doc", "Feed", "Item", "Note"}

\* self._resources
Resources ==
    [t \in ResourceTypes |->
        CASE t = "Doc" -> Doc [] t = "Feed" -> Feed
          [] t = "Item" -> Item [] t = "Note" -> Note]


\* hasattr(instance, name) / callable(getattr(instance, name))
hasattr(inst, name) == name \in Resources[inst].callables \cup Resources[inst].others
callable(inst, name) == name \in Resources[inst].callables

\* every attribute name of the model, in the order dir() lists them
AttrOrder == <<"DELETE", "GET", "HEAD", "POST", "PUT", "TITLE",
               "get_etag", "get_last_modified">>

\* dir(instance): the attribute names, sorted
dir(inst) == SelectSeq(AttrOrder, LAMBDA n : hasattr(inst, n))

\* str.upper() on attribute names
upper(name) ==
    CASE name = "get_etag" -> "GET_ETAG"
      [] name = "get_last_modified" -> "GET_LAST_MODIFIED"
      [] OTHER -> name

\* what the resource's own code returns when the callable is called
Returns(inst, name) ==
    CASE name = "get_etag" -> Resources[inst].etag_raw
      [] name = "get_last_modified" -> Resources[inst].last_modified
      [] OTHER -> Resources[inst].returns[name]

\* what the handler hands back to _call_resource; a capability called as the
\* verb handler hands back its plain return value
HandlerReturn(inst, name) ==
    IF name \in {"get_etag", "get_last_modified"}
    THEN Plain([kind |-> "capability", msg |-> name])
    ELSE Returns(inst, name)

----------------------------------------------------------------------------
(* Requests *)

\* hashlib.md5(body).hexdigest() on the bodies of the model
Bodies == {<<>>, <<"x">>}
md5_hexdigest(body) ==
    IF body = <<>> THEN "d41d8cd98f00b204e9800998ecf8427e"
    ELSE "9dd4e461268c8034f5c8564e155c67a6"

\* webob's ETag matchers: If-Match defaults to AnyETag, If-None-Match to NoETag
AnyETag == [any |-> TRUE, tags |-> {}]
NoETag == [any |-> FALSE, tags |-> {}]
ETagMatcher(tags) == [any |-> FALSE, tags |-> tags]
\* tag in matcher
InMatcher(tag, matcher) == matcher.any \/ tag \in matcher.tags

Tags == {<<"a">>, <<"b">>}
Matchers == {AnyETag} \cup {ETagMatcher(S) : S \in SUBSET Tags}
Dates == 1..MaxDate
OptDates == {NoDate} \cup Dates

ValueChars == {"1", "a", "\n"}
Values == UNION {[1..n -> ValueChars] : n \in 0..MaxValueLen}

ParamNames == {"id", "name"}
\* the dicts over a set of keys K with values in V
Dicts(K, V) == UNION {[D -> V] : D \in SUBSET K}

Verbs == {"GET", "HEAD", "POST", "PUT", "DELETE", "OPTIONS", "PATCH", "get_etag"}

Request(path, verb, has_md5, md5, body, ifm, inm, ims, ius, get, post) ==
    [path |-> path, method |-> verb, has_md5 |-> has_md5, md5 |-> md5,
     body |-> body, if_match |-> ifm, if_none_match |-> inm,
     if_modified_since |-> ims, if_unmodified_since |-> ius,
     GET |-> get, POST |-> post]

NoRequest ==
    Request(<<>>, "", FALSE, "", <<>>, AnyETag, NoETag, NoDate, NoDate,
            EmptyDict, EmptyDict)

\* the value a parameter named "request" is bound to
RequestObject == <<"request">>

\* the router: the first path segment names the resource, the second, when
\* there is one, is the path parameter id
Routes == [seg \in {"doc", "feed", "item", "note"} |->
             CASE seg = "doc" -> "Doc" [] seg = "feed" -> "Feed"
               [] seg = "item" -> "Item" [] seg = "note" -> "Note"]

NoMatch == [match |-> FALSE, path_params |-> EmptyDict, res |-> NoInstance]

_urlmap(path) ==
    IF path /= <<>> /\ path[1] \in DOMAIN Routes
    THEN [match |-> TRUE,
          path_params |-> IF Len(path) > 1 THEN [k \in {"id"} |-> path[2]]
                          ELSE EmptyDict,
          res |-> Routes[path[1]]]
    ELSE NoMatch


----------------------------------------------------------------------------
(* The pure parts of Application *)

\* _resolve_method with the fallback to GET taken for every verb
ResolveAnyVerbFallsBack(inst, verb) ==
    IF hasattr(inst, verb) /\ callable(inst, verb) THEN verb
    ELSE IF hasattr(inst, "GET") /\ callable(inst, "GET") THEN "GET"
    ELSE NoMethod

RECURSIVE _resolve_method(_, _)
_resolve_method(inst, verb) ==
    IF hasattr(inst, verb) /\ callable(inst, verb) THEN verb
    ELSE IF verb = "HEAD" THEN _resolve_method(inst, "GET")
    ELSE NoMethod

\* _get_allowed_methods without the callable() test
AllowedWithoutCallable(inst) ==
    SelectSeq(dir(inst), LAMBDA m : upper(m) = m)

_get_allowed_methods(inst) ==
    SelectSeq(dir(inst), LAMBDA m : upper(m) = m /\ callable(inst, m))

\* the 405 list with one verb too many
KnownVerbsWithPatch ==
    {"OPTIONS", "GET", "HEAD", "POST", "PUT", "DELETE", "TRACE", "CONNECT", "PATCH"}

\* the verbs for which a missing handler is answered with 405
KnownVerbs == {"OPTIONS", "GET", "HEAD", "POST", "PUT", "DELETE", "TRACE", "CONNECT"}

\* the value lookup with request.POST asked before request.GET
BindFormFirst(param, pp, request) ==
    IF param = "request" THEN RequestObject
    ELSE IF param \in DOMAIN pp THEN pp[param]
    ELSE IF param \in DOMAIN request.POST THEN request.POST[param]
    ELSE IF param \in DOMAIN request.GET THEN request.GET[param]
    ELSE None

\* the value lookup of _call_dynamic_method for one declared parameter
BindParam(param, pp, request) ==
    IF param = "request" THEN RequestObject
    ELSE IF param \in DOMAIN pp THEN pp[param]
    ELSE IF param \in DOMAIN request.GET THEN request.GET[param]
    ELSE IF param \in DOMAIN request.POST THEN request.POST[param]
    ELSE None

\* the rule set _validate_param finds: the method's, else the class's
NoRules == [found |-> FALSE, rule |-> Rule(FALSE, Bol)]
RulesFor(inst, name, param) ==
    LET R == Resources[inst]
    IN  IF name \in DOMAIN R.mvalid /\ param \in DOMAIN R.mvalid[name]
        THEN [found |-> TRUE, rule |-> R.mvalid[name][param]]
        ELSE IF R.has_cvalid /\ param \in DOMAIN R.cvalid
        THEN [found |-> TRUE, rule |-> R.cvalid[param]]
        ELSE NoRules

\* "ok" when _validate_param returns, else the ValidationException it raises
_validate_param(inst, name, param, value) ==
    LET rules == RulesFor(inst, name, param)
    IN  IF ~rules.found THEN "ok"
        ELSE IF value = None \/ Len(value) = 0 THEN "empty"
        ELSE IF rules.rule.has_re
                /\ ~re_search(AnchoredPattern(rules.rule.re), value)
        THEN "invalid"
        ELSE "ok"

\* the declared parameters after "pop the self off"
MethodParams(inst, name) ==
    LET a == Resources[inst].args[name]
    IN  IF a /= <<>> THEN Tail(a) ELSE a

\* the loop of _call_dynamic_method over the declared parameters: the
\* arguments bound so far, and whether validation raised (at the first
\* parameter that fails)
BindAll(declared, values, verdicts) ==
    LET failing == {i \in 1..Len(declared) : verdicts[i] /= "ok"}
        first == CHOOSE i \in failing : \A j \in failing : i <= j
    IN  IF failing = {}
        THEN [raised |-> FALSE, error |-> "ok", param |-> "", params |-> values]
        ELSE [raised |-> TRUE, error |-> verdicts[first], param |-> declared[first],
              params |-> SubSeq(values, 1, first - 1)]

ValidateAll(inst, name, declared, values) ==
    BindAll(declared, values,
            [i \in 1..Len(declared) |->
                _validate_param(inst, name, declared[i], values[i])])

BindValues(inst, name, declared, pp, request) ==
    ValidateAll(inst, name, declared,
                [i \in 1..Len(declared) |-> BindParam(declared[i], pp, request)])

\* _call_dynamic_method up to the call
_call_dynamic_method(inst, name, pp, request) ==
    BindValues(inst, name, MethodParams(inst, name), pp, request)

Call(role, name, c) == [role |-> role, name |-> name, params |-> c.params]

\* the quoting without retval.replace('"', '')
QuoteWithoutReplace(retval) ==
    IF Truthy(retval) THEN <<Quote>> \o retval \o <<Quote>>
    ELSE None

\* the quoted ETag, or None
QuoteETag(retval) ==
    IF Truthy(retval) THEN <<Quote>> \o StrReplaceQuote(retval) \o <<Quote>>
    ELSE None

\* the result of calling a capability through _call_dynamic_method: whether
\* validation raised, the call made and the value it returned
Capability(name, c, retval, none) ==
    IF c.raised THEN [raised |-> TRUE, calls |-> <<>>, value |-> none]
    ELSE [raised |-> FALSE, calls |-> <<Call(name, name, c)>>, value |-> retval]

_get_etag(inst, pp, request) ==
    IF ~hasattr(inst, "get_etag")
    THEN [raised |-> FALSE, calls |-> <<>>, value |-> None]
    ELSE Capability("get_etag", _call_dynamic_method(inst, "get_etag", pp, request),
                    QuoteETag(Returns(inst, "get_etag")), None)

_get_last_modified(inst, pp, request) ==
    IF ~hasattr(inst, "get_last_modified")
    THEN [raised |-> FALSE, calls |-> <<>>, value |-> NoDate]
    ELSE Capability("get_last_modified",
                    _call_dynamic_method(inst, "get_last_modified", pp, request),
                    Returns(inst, "get_last_modified"), NoDate)

\* what a bare "return" hands back; Python 2 orders None below every integer
StatusNone == -1

\* _handle_condition_etag answering 304 to every verb
ETagNoneMatchAlways304(request, etag) ==
    IF ~Truthy(etag) THEN 0
    ELSE LET etag_match == StrReplaceQuote(etag)
         IN  IF ~InMatcher(etag_match, request.if_match) THEN 412
             ELSE IF InMatcher(etag_match, request.if_none_match) THEN 304
             ELSE 0

\* _handle_condition_etag testing If-None-Match before If-Match
ETagNoneMatchFirst(request, etag) ==
    IF ~Truthy(etag) THEN 0
    ELSE LET etag_match == StrReplaceQuote(etag)
         IN  IF InMatcher(etag_match, request.if_none_match)
             THEN IF request.method \in {"GET", "HEAD"} THEN 304 ELSE 412
             ELSE IF ~InMatcher(etag_match, request.if_match) THEN 412
             ELSE 0

_handle_condition_etag(request, etag) ==
    IF ~Truthy(etag) THEN 0
    ELSE LET etag_match == StrReplaceQuote(etag)
         IN  IF ~InMatcher(etag_match, request.if_match) THEN 412
             ELSE IF InMatcher(etag_match, request.if_none_match)
             THEN IF request.method \in {"GET", "HEAD"} THEN 304 ELSE 412
             ELSE 0

\* _handle_condition_last_modified with < for <=
LastModifiedStrictlyOlder(request, last_modified) ==
    IF last_modified = NoDate THEN StatusNone
    ELSE IF request.if_modified_since /= NoDate
            /\ last_modified < request.if_modified_since THEN 304
    ELSE IF request.if_unmodified_since /= NoDate
            /\ last_modified > request.if_unmodified_since THEN 412
    ELSE 0

_handle_condition_last_modified(request, last_modified) ==
    IF last_modified = NoDate THEN StatusNone
    ELSE IF request.if_modified_since /= NoDate
            /\ last_modified <= request.if_modified_since THEN 304
    ELSE IF request.if_unmodified_since /= NoDate
            /\ last_modified > request.if_unmodified_since THEN 412
    ELSE 0

\* webob._serialize_date
HttpDate == [d \in 1..9 |-> <<"HTTP-date", "day", ToString(d)>>]
_serialize_date(d) == IF d = NoDate THEN None ELSE HttpDate[d]

\* the Content-MD5 check without seek(0): the digest of an input already read
ContentMD5OfConsumedInput(request) ==
    request.has_md5 /\ md5_hexdigest(<<>>) /= request.md5

\* the Content-MD5 check of _handle_conditions
ContentMD5Mismatch(request) ==
    request.has_md5 /\ md5_hexdigest(request.body) /= request.md5

\* the two conditions in the other order: Last-Modified decides first
LastModifiedFirst(request, etag, last_modified) ==
    LET status == _handle_condition_last_modified(request, last_modified)
    IN  IF status > 0 THEN status ELSE _handle_condition_etag(request, etag)

\* the status _handle_conditions decides once both values are computed
ConditionStatus(request, etag, last_modified) ==
    LET status == _handle_condition_etag(request, etag)
    IN  IF status = 0 THEN _handle_condition_last_modified(request, last_modified)
        ELSE status

\* _handle_conditions: whether a ValidationException left it, the calls it
\* made, the dict of default headers and the status of the response it
\* returned (0: it returned no response)
\* lines 106-114, given the two computed values
Decide(request, made, etag, last_modified, status) ==
    [raised |-> FALSE, calls |-> made,
     headers |-> [h \in {"ETag", "Last-Modified"} |->
                    IF h = "ETag" THEN etag ELSE _serialize_date(last_modified)],
     status |-> IF status > 0 THEN status ELSE 0]

\* lines 104-114, given the results e and l of _get_etag and _get_last_modified
Conditions(request, e, l) ==
    IF e.raised
    THEN [raised |-> TRUE, calls |-> <<>>, headers |-> EmptyDict, status |-> 0]
    ELSE IF l.raised
    THEN [raised |-> TRUE, calls |-> e.calls, headers |-> EmptyDict, status |-> 0]
    ELSE Decide(request, e.calls \o l.calls, e.value, l.value,
                ConditionStatus(request, e.value, l.value))

\* _handle_conditions with the Content-MD5 check after the preconditions
ConditionsBeforeMD5(inst, pp, request) ==
    LET c == Conditions(request, _get_etag(inst, pp, request),
                        _get_last_modified(inst, pp, request))
    IN  IF c.raised \/ c.status > 0 \/ ~ContentMD5Mismatch(request) THEN c
        ELSE [raised |-> FALSE, calls |-> <<>>, headers |-> EmptyDict, status |-> 400]

_handle_conditions(inst, pp, request) ==
    IF ContentMD5Mismatch(request)
    THEN [raised |-> FALSE, calls |-> <<>>, headers |-> EmptyDict, status |-> 400]
    ELSE Conditions(request, _get_etag(inst, pp, request),
                    _get_last_modified(inst, pp, request))

\* the header merge with "headers[key] = value" for every non-empty default
DefaultsOverride(handler_headers, defaults) ==
    LET add == {k \in DOMAIN defaults : Truthy(defaults[k])}
    IN  [k \in DOMAIN handler_headers \cup add |->
           IF k \in add THEN defaults[k] ELSE handler_headers[k]]

\* the header merge of _call_resource
MergeHeaders(handler_headers, defaults) ==
    LET add == {k \in DOMAIN defaults :
                  Truthy(defaults[k]) /\ k \notin DOMAIN handler_headers}
    IN  [k \in DOMAIN handler_headers \cup add |->
           IF k \in DOMAIN handler_headers THEN handler_headers[k] ELSE defaults[k]]


----------------------------------------------------------------------------
(* The requests of each workload *)

MD5Headers ==
    {[has |-> FALSE, value |-> ""]}
    \cup {[has |-> TRUE, value |-> v] :
            v \in {md5_hexdigest(b) : b \in Bodies} \cup {"deadbeef"}}

Resolvable(r) ==
    /\ _urlmap(r.path).match
    /\ _resolve_method(_urlmap(r.path).res, r.method) /= NoMethod

\* routing, method resolution and the Content-MD5 check
DispatchRequests ==
    {Request(p, v, h.has, h.value, b, AnyETag, NoETag, NoDate, NoDate,
             EmptyDict, EmptyDict) :
        p \in {<<"nope">>, <<"doc">>, <<"doc", <<"1">>>>, <<"feed">>, <<"item">>,
               <<"note">>},
        v \in Verbs, h \in MD5Headers, b \in Bodies}

\* conditional requests on resolvable handlers
CondRequests ==
    {r \in
        {Request(p, v, h.has, h.value, <<>>, ifm, inm, ims, ius, EmptyDict, EmptyDict) :
            p \in {<<"doc", <<"1">>>>, <<"feed">>, <<"item", <<"a">>>>, <<"note">>},
            v \in {"GET", "HEAD", "PUT", "DELETE"},
            h \in {x \in MD5Headers : x.value \in {"", "deadbeef"}},
            ifm \in Matchers, inm \in Matchers,
            ims \in OptDates, ius \in OptDates} :
        Resolvable(r)}

\* parameter binding and validation
QueryDicts ==
    {d \in Dicts(ParamNames, Values) :
        "name" \in DOMAIN d => d["name"] \in {<<>>, <<"a">>}}
FormDicts ==
    {d \in Dicts(ParamNames, {<<"1">>, <<"a", "1">>, <<"b">>}) :
        /\ "id" \in DOMAIN d => d["id"] /= <<"b">>
        /\ "name" \in DOMAIN d => d["name"] = <<"b">>}

ParamRequests ==
    {r \in
        {Request(p, v, FALSE, "", <<>>, AnyETag, NoETag, NoDate, NoDate, g, f) :
            p \in {<<"doc">>, <<"doc", <<"1">>>>, <<"item">>, <<"item", <<"a">>>>,
                   <<"note">>},
            v \in {"GET", "POST", "DELETE"},
            g \in QueryDicts, f \in FormDicts} :
        Resolvable(r)}

Workloads == {"dispatch", "conditional", "params"}

\* requests whose responses the hosting layer keeps
HistoryRequests ==
    {Request(p, v, h.has, h.value, <<>>, AnyETag, NoETag, NoDate, NoDate,
             EmptyDict, EmptyDict) :
        p \in {<<"nope">>, <<"doc", <<"1">>>>, <<"feed">>, <<"item">>, <<"note">>},
        v \in {"GET", "POST", "DELETE", "PATCH"},
        h \in {x \in MD5Headers : x.value \in {"", "deadbeef"}}}

Requests(w) ==
    CASE w = "dispatch" -> DispatchRequests
      [] w = "conditional" -> CondRequests
      [] w = "params" -> ParamRequests
      [] w = "history" -> HistoryRequests

----------------------------------------------------------------------------
(* Responses and the header dicts *)

\* the status of a Response built without a status argument
SuccessStatus == 200

Response(body, status, headers) == [status |-> status, headers |-> headers, body |-> body]
NoResponse == Response(NoBody, 0, "")

\* the default-argument dicts of _get_response_400/404/405/501, created once
\* when the class body runs, and the dict the current request built
SharedDicts == {"d400", "d404", "d405", "d501"}
DictIds == SharedDicts \cup {"own"}

\* d[k] = v
SetItem(d, k, v) == [x \in DOMAIN d \cup {k} |-> IF x = k THEN v ELSE d[x]]

_get_response_304(h, headers) ==
    [heap |-> [h EXCEPT !["own"] = headers],
     response |-> Response(NoBody, 304, "own")]

_get_response_412(h, headers) ==
    [heap |-> [h EXCEPT !["own"] = headers],
     response |-> Response(ErrorBody("Precondition failed"), 412, "own")]

_get_response_400(h, body) ==
    [heap |-> h, response |-> Response(ErrorBody(body), 400, "d400")]

\* _get_response_404 with the status of the next helper
NotFoundAs405(h) ==
    [heap |-> h, response |-> Response(ErrorBody("not found"), 405, "d404")]

_get_response_404(h) ==
    [heap |-> h, response |-> Response(ErrorBody("not found"), 404, "d404")]

_get_response_405(h, inst) ==
    [heap |-> [h EXCEPT !["d405"] = SetItem(@, "Allow", _get_allowed_methods(inst))],
     response |-> Response(ErrorBody("Invalid method on resource"), 405, "d405")]

_get_response_501(h, inst) ==
    [heap |-> [h EXCEPT !["d501"] = SetItem(@, "Allow", _get_allowed_methods(inst))],
     response |-> Response(ErrorBody("Unknown method"), 501, "d501")]

\* the response _handle_conditions returned: the 400 of the Content-MD5 check,
\* or resfunc = getattr(self, '_get_response_' + str(status))
ConditionResponse(h, c) ==
    CASE c.status = 400 ->
            _get_response_400(h, "The Content-MD5 request header does not match the body.")
      [] c.status = 304 -> _get_response_304(h, c.headers)
      [] c.status = 412 -> _get_response_412(h, c.headers)

\* _call_resource returning early on the Content-MD5 response only
HasResponseOnly400(c) == c.status = 400

\* "if response:" in _call_resource
HasResponse(c) == c.status /= 0

\* the headers of a response, read through its reference
HeadersOf(r) == heap[r.headers]

\* a response the hosting layer keeps after __call__ returned: its status, the
\* dict its headers refer to ("kept": the dict that request built, which no
\* later request reaches) and the entries of that dict when it was returned
Keep(r, h) ==
    [status |-> r.status,
     ref |-> IF r.headers \in SharedDicts THEN r.headers ELSE "kept",
     headers |-> h[r.headers]]
NoEarlier == [status |-> 0, ref |-> "", headers |-> EmptyDict]

\* no thread pool, no capability value yet
NoThreads == <<>>
NoRaw == [has |-> FALSE, value |-> None]

----------------------------------------------------------------------------
(* The state machine *)

Init ==
    /\ workload \in Workloads
    /\ pc = "idle"
    /\ req = NoRequest
    /\ res = NoInstance
    /\ path_params = EmptyDict
    /\ instance = NoInstance
    /\ method = NoMethod
    /\ default_headers = EmptyDict
    /\ calls = <<>>
    /\ response = NoResponse
    /\ outcome = "none"
    /\ heap = [d \in DictIds |-> EmptyDict]
    /\ earlier = NoEarlier
    /\ threads = NoThreads
    /\ raw = NoRaw
    /\ stripped = None

\* the hosting layer calls the application with a request
Receive(r) ==
    /\ pc = "idle"
    /\ req' = r
    /\ pc' = "routing"
    /\ UNCHANGED <<workload, res, path_params, instance, method, default_headers,
                   calls, response, outcome, heap, earlier, aside>>

\* the pipeline ends with a response
Respond(r) ==
    /\ heap' = r.heap
    /\ response' = r.response
    /\ outcome' = "response"
    /\ pc' = "done"

\* a ValidationException leaves the pipeline
Raise ==
    /\ outcome' = "raised"
    /\ pc' = "done"
    /\ UNCHANGED <<response, heap>>

\* _handle_request: route the path
_handle_request ==
    /\ pc = "routing"
    /\ LET parsed == _urlmap(req.path)
       IN  IF ~parsed.match
           THEN /\ Respond(_get_response_404(heap))
                /\ UNCHANGED <<res, path_params>>
           ELSE /\ path_params' = parsed.path_params
                /\ res' = parsed.res
                /\ pc' = "resolve"
                /\ UNCHANGED <<response, outcome, heap>>
    /\ UNCHANGED <<workload, req, instance, method, default_headers, calls,
                   earlier, aside>>

\* _call_resource, lines 64-72: create the instance and resolve the method
_call_resource_resolve ==
    /\ pc = "resolve"
    /\ instance' = res
    /\ method' = _resolve_method(res, req.method)
    /\ IF method' = NoMethod
       THEN IF req.method \in KnownVerbs
            THEN Respond(_get_response_405(heap, res))
            ELSE Respond(_get_response_501(heap, res))
       ELSE /\ pc' = "conditions"
            /\ UNCHANGED <<response, outcome, heap>>
    /\ UNCHANGED <<workload, req, res, path_params, default_headers, calls,
                   earlier, aside>>

\* _call_resource, lines 73-76: the conditions
_call_resource_conditions ==
    /\ pc = "conditions"
    /\ \E c \in {_handle_conditions(instance, path_params, req)} :
           /\ calls' = calls \o c.calls
           /\ default_headers' = c.headers
           /\ IF c.raised THEN Raise
              ELSE IF HasResponse(c) THEN Respond(ConditionResponse(heap, c))
              ELSE /\ pc' = "invoke"
                   /\ UNCHANGED <<response, outcome, heap>>
    /\ UNCHANGED <<workload, req, res, path_params, instance, method,
                   earlier, aside>>

\* _call_resource, lines 77-88: bind, validate, call the handler, merge
_call_resource_invoke ==
    /\ pc = "invoke"
    /\ \E c \in {_call_dynamic_method(instance, method, path_params, req)},
          ret \in {HandlerReturn(instance, method)} :
           IF c.raised
           THEN /\ Raise
                /\ UNCHANGED calls
           ELSE /\ calls' = Append(calls, Call("handler", method, c))
                /\ Respond([heap |-> [heap EXCEPT !["own"] =
                                        MergeHeaders(ret.headers, default_headers)],
                            response |-> Response(ret.body, SuccessStatus, "own")])
    /\ UNCHANGED <<workload, req, res, path_params, instance, method, default_headers,
                   earlier, aside>>

\* __call__ returns (or the exception leaves it); the instance and the
\* request's own objects are dropped.  In the "history" workload the hosting
\* layer keeps the response it was handed
Finish ==
    /\ pc = "done"
    /\ pc' = "idle"
    /\ req' = NoRequest
    /\ res' = NoInstance
    /\ path_params' = EmptyDict
    /\ instance' = NoInstance
    /\ method' = NoMethod
    /\ default_headers' = EmptyDict
    /\ calls' = <<>>
    /\ response' = NoResponse
    /\ outcome' = "none"
    /\ heap' = [heap EXCEPT !["own"] = EmptyDict]
    /\ earlier' = IF workload = "history" /\ outcome = "response"
                  THEN Keep(response, heap) ELSE earlier
    /\ UNCHANGED <<workload, aside>>

Next ==
    \/ \E r \in Requests(workload) : Receive(r)
    \/ _handle_request
    \/ _call_resource_resolve
    \/ _call_resource_conditions
    \/ _call_resource_invoke
    \/ Finish

Spec == Init /\ [][Next]_vars

\* the same pipeline, run by a hosting layer that keeps each response
HistoryInit ==
    /\ workload = "history"
    /\ pc = "idle"
    /\ req = NoRequest
    /\ res = NoInstance
    /\ path_params = EmptyDict
    /\ instance = NoInstance
    /\ method = NoMethod
    /\ default_headers = EmptyDict
    /\ calls = <<>>
    /\ response = NoResponse
    /\ outcome = "none"
    /\ heap = [d \in DictIds |-> EmptyDict]
    /\ earlier = NoEarlier
    /\ threads = NoThreads
    /\ raw = NoRaw
    /\ stripped = None

SpecHistory == HistoryInit /\ [][Next]_vars

----------------------------------------------------------------------------
(* Several pipeline runs on one Application.  Each thread of the server     *)
(* calls __call__ with its own request; the locals of a run are the         *)
(* thread's own, the default-argument dicts in heap are shared by all.      *)
(* A thread switch can fall between any two statements, so the write        *)
(* headers['Allow'] = ... and the Response(...) call after it are two steps. *)

Threads == {1, 2}

\* a run's locals: the fields of the single run, and seen, the entries of the
\* headers dict when Response(...) was called with it
IdleThread ==
    [pc |-> "idle", req |-> NoRequest, res |-> NoInstance, path_params |-> EmptyDict,
     instance |-> NoInstance, method |-> NoMethod, response |-> NoResponse,
     seen |-> EmptyDict, outcome |-> "none"]

ThreadRequests ==
    {Request(p, v, FALSE, "", <<>>, AnyETag, m, NoDate, NoDate, EmptyDict, EmptyDict) :
        p \in {<<"nope">>, <<"doc", <<"1">>>>, <<"feed">>, <<"item">>},
        v \in {"GET", "POST", "PATCH"},
        m \in {NoETag, ETagMatcher({<<"a">>})}}

\* the run of thread t ends with the response r.response; the dict a run built
\* itself is its own
ThreadRespond(t, r) ==
    /\ threads' = [threads EXCEPT ![t] =
                     [@ EXCEPT !.response = r.response,
                               !.seen = r.heap[r.response.headers],
                               !.outcome = "response",
                               !.pc = "done"]]
    /\ heap' = [r.heap EXCEPT !["own"] = EmptyDict]

\* a ValidationException leaves the run of thread t
ThreadRaise(t) ==
    /\ threads' = [threads EXCEPT ![t] = [@ EXCEPT !.outcome = "raised", !.pc = "done"]]
    /\ UNCHANGED heap

ThreadReceive(t, r) ==
    /\ threads[t].pc = "idle"
    /\ threads' = [threads EXCEPT ![t] = [@ EXCEPT !.req = r, !.pc = "routing"]]
    /\ UNCHANGED heap
    /\ UNCHANGED <<workload, single, earlier, raw, stripped>>

Thread_handle_request(t) ==
    /\ threads[t].pc = "routing"
    /\ \E parsed \in {_urlmap(threads[t].req.path)} :
          IF ~parsed.match
          THEN ThreadRespond(t, _get_response_404(heap))
          ELSE /\ threads' = [threads EXCEPT ![t] =
                                [@ EXCEPT !.path_params = parsed.path_params,
                                          !.res = parsed.res,
                                          !.pc = "resolve"]]
               /\ UNCHANGED heap
    /\ UNCHANGED <<workload, single, earlier, raw, stripped>>

\* _call_resource, lines 64-72, up to the call of _get_response_405 / 501
Thread_call_resource_resolve(t) ==
    /\ threads[t].pc = "resolve"
    /\ \E m \in {_resolve_method(threads[t].res, threads[t].req.method)} :
          threads' = [threads EXCEPT ![t] =
                        [@ EXCEPT !.instance = threads[t].res,
                                  !.method = m,
                                  !.pc = IF m /= NoMethod THEN "conditions"
                                         ELSE IF threads[t].req.method \in KnownVerbs
                                         THEN "405" ELSE "501"]]
    /\ UNCHANGED heap
    /\ UNCHANGED <<workload, single, earlier, raw, stripped>>

\* line 154: headers['Allow'] = self._get_allowed_methods(instance)
Thread_get_response_405_allow(t) ==
    /\ threads[t].pc = "405"
    /\ heap' = _get_response_405(heap, threads[t].instance).heap
    /\ threads' = [threads EXCEPT ![t] = [@ EXCEPT !.pc = "405 return"]]
    /\ UNCHANGED <<workload, single, earlier, raw, stripped>>

\* lines 155-156: return Response(..., status=405, headers=headers)
Thread_get_response_405_return(t) ==
    /\ threads[t].pc = "405 return"
    /\ ThreadRespond(t, [heap |-> heap,
                         response |-> _get_response_405(heap, threads[t].instance).response])
    /\ UNCHANGED <<workload, single, earlier, raw, stripped>>

\* line 165
Thread_get_response_501_allow(t) ==
    /\ threads[t].pc = "501"
    /\ heap' = _get_response_501(heap, threads[t].instance).heap
    /\ threads' = [threads EXCEPT ![t] = [@ EXCEPT !.pc = "501 return"]]
    /\ UNCHANGED <<workload, single, earlier, raw, stripped>>

\* lines 166-167
Thread_get_response_501_return(t) ==
    /\ threads[t].pc = "501 return"
    /\ ThreadRespond(t, [heap |-> heap,
                         response |-> _get_response_501(heap, threads[t].instance).response])
    /\ UNCHANGED <<workload, single, earlier, raw, stripped>>

\* _call_resource, lines 73-88: the conditions, the handler and the merge
Thread_call_resource_invoke(t) ==
    /\ threads[t].pc = "conditions"
    /\ \E c \in {_handle_conditions(threads[t].instance, threads[t].path_params,
                                    threads[t].req)},
          d \in {_call_dynamic_method(threads[t].instance, threads[t].method,
                                      threads[t].path_params, threads[t].req)},
          ret \in {HandlerReturn(threads[t].instance, threads[t].method)} :
          IF c.raised THEN ThreadRaise(t)
          ELSE IF HasResponse(c) THEN ThreadRespond(t, ConditionResponse(heap, c))
          ELSE IF d.raised THEN ThreadRaise(t)
          ELSE ThreadRespond(t,
                  [heap |-> [heap EXCEPT !["own"] = MergeHeaders(ret.headers, c.headers)],
                   response |-> Response(ret.body, SuccessStatus, "own")])
    /\ UNCHANGED <<workload, single, earlier, raw, stripped>>

\* __call__ returns on thread t
ThreadFinish(t) ==
    /\ threads[t].pc = "done"
    /\ threads' = [threads EXCEPT ![t] = IdleThread]
    /\ UNCHANGED heap
    /\ UNCHANGED <<workload, single, earlier, raw, stripped>>

ThreadsInit ==
    /\ workload = "threads"
    /\ pc = "idle"
    /\ req = NoRequest
    /\ res = NoInstance
    /\ path_params = EmptyDict
    /\ instance = NoInstance
    /\ method = NoMethod
    /\ default_headers = EmptyDict
    /\ calls = <<>>
    /\ response = NoResponse
    /\ outcome = "none"
    /\ heap = [d \in DictIds |-> EmptyDict]
    /\ earlier = NoEarlier
    /\ threads = [t \in Threads |-> IdleThread]
    /\ raw = NoRaw
    /\ stripped = None

ThreadsNext ==
    \/ \E t \in Threads, r \in ThreadRequests : ThreadReceive(t, r)
    \/ \E t \in Threads : Thread_handle_request(t)
    \/ \E t \in Threads : Thread_call_resource_resolve(t)
    \/ \E t \in Threads : Thread_get_response_405_allow(t)
    \/ \E t \in Threads : Thread_get_response_405_return(t)
    \/ \E t \in Threads : Thread_get_response_501_allow(t)
    \/ \E t \in Threads : Thread_get_response_501_return(t)
    \/ \E t \in Threads : Thread_call_resource_invoke(t)
    \/ \E t \in Threads : ThreadFinish(t)

SpecThreads == ThreadsInit /\ [][ThreadsNext]_vars

----------------------------------------------------------------------------
(* The ETag computation on its own: a get_etag capability returns any       *)
(* value, _get_etag quotes it and _handle_condition_etag strips the quotes   *)
(* again for the comparison.                                                 *)

MaxRawLen == 3      \* longest value a get_etag capability returns

RawChars == {"a", "b", Quote}
RawValues == {None} \cup UNION {[1..n -> RawChars] : n \in 0..MaxRawLen}

\* what the ETag computation leaves alone
outside == <<workload, req, res, path_params, instance, method, calls, response,
             outcome, heap, earlier, threads>>

\* the resource has a get_etag and it returns v, or it has none
ResourceGetETag(has, v) ==
    /\ pc = "idle"
    /\ raw' = [has |-> has, value |-> v]
    /\ pc' = "get_etag"
    /\ UNCHANGED <<default_headers, stripped, outside>>

\* _get_etag and line 106: the ETag entry of the default headers
ComputeETag ==
    /\ pc = "get_etag"
    /\ default_headers' = [h \in {"ETag"} |->
                             IF raw.has THEN QuoteETag(raw.value) ELSE None]
    /\ pc' = "etag"
    /\ UNCHANGED <<raw, stripped, outside>>

\* _handle_condition_etag, lines 117-119
StripETag ==
    /\ pc = "etag"
    /\ stripped' = IF Truthy(default_headers["ETag"])
                   THEN StrReplaceQuote(default_headers["ETag"]) ELSE None
    /\ pc' = "compared"
    /\ UNCHANGED <<raw, default_headers, outside>>

\* the next request
ForgetETag ==
    /\ pc = "compared"
    /\ pc' = "idle"
    /\ raw' = NoRaw
    /\ default_headers' = EmptyDict
    /\ stripped' = None
    /\ UNCHANGED outside

ETagInit ==
    /\ workload = "etag"
    /\ pc = "idle"
    /\ req = NoRequest
    /\ res = NoInstance
    /\ path_params = EmptyDict
    /\ instance = NoInstance
    /\ method = NoMethod
    /\ default_headers = EmptyDict
    /\ calls = <<>>
    /\ response = NoResponse
    /\ outcome = "none"
    /\ heap = [d \in DictIds |-> EmptyDict]
    /\ earlier = NoEarlier
    /\ threads = NoThreads
    /\ raw = NoRaw
    /\ stripped = None

ETagNext ==
    \/ \E v \in RawValues : ResourceGetETag(TRUE, v)
    \/ ResourceGetETag(FALSE, None)
    \/ ComputeETag
    \/ StripETag
    \/ ForgetETag

SpecETag == ETagInit /\ [][ETagNext]_vars


----------------------------------------------------------------------------
(* Vocabulary of the properties *)

RecognizedVerbs == {"GET", "HEAD", "POST", "PUT", "DELETE", "OPTIONS", "TRACE", "CONNECT"}
ShortCircuitStatuses == {404, 405, 501, 400, 304, 412}

\* the calls of the verb handler made for the current request
HandlerCalls == SelectSeq(calls, LAMBDA c : c.role = "handler")
\* the calls of the ETag / Last-Modified capabilities
CapabilityCalls == SelectSeq(calls, LAMBDA c : c.role /= "handler")

SeqToSet(q) == {q[i] : i \in 1..Len(q)}

\* the router matched the path of the current request
Routed == req.path /= <<>> /\ req.path[1] \in {"doc", "feed", "item", "note"}

\* the verb handlers a resource type exposes
VerbHandlers(t) == Resources[t].callables \ {"get_etag", "get_last_modified"}

\* what the resource's capabilities yield: the raw ETag (empty when there is
\* none) and the Last-Modified timestamp (NoDate when there is none)
RawETagOf(t) ==
    IF "get_etag" \in Resources[t].callables /\ Resources[t].etag_raw /= None
    THEN Resources[t].etag_raw ELSE <<>>
LastModifiedOf(t) ==
    IF "get_last_modified" \in Resources[t].callables
    THEN Resources[t].last_modified ELSE NoDate

\* the request carries a Content-MD5 header that differs from the body's digest
MD5Differs == req.has_md5 /\ req.md5 /= md5_hexdigest(req.body)

----------------------------------------------------------------------------
(* C1: in one run of the pipeline the verb handler is invoked at most once,  *)
(* and only after method resolution succeeded, the Content-MD5 check passed, *)
(* the ETag / Last-Modified preconditions produced no decision and every     *)
(* declared parameter passed validation; on every short-circuit (404, 405,   *)
(* 501, 400, 304, 412) it is invoked zero times.                             *)
C1_HandlerInvokedOnceAfterChecks ==
    /\ Len(HandlerCalls) <= 1
    /\ Len(HandlerCalls) = 1 =>
         /\ Routed
         /\ method /= NoMethod /\ method \in Resources[instance].callables
         /\ HandlerCalls[1].name = method
         /\ ~MD5Differs
         /\ _handle_condition_etag(req, default_headers["ETag"]) = 0
         /\ _handle_condition_last_modified(req, LastModifiedOf(instance)) <= 0
         /\ LET declared == Tail(Resources[instance].args[method])
                params == HandlerCalls[1].params
            IN  /\ Len(params) = Len(declared)
                /\ \A i \in 1..Len(declared) :
                      _validate_param(instance, method, declared[i], params[i]) = "ok"
    /\ response.status \in ShortCircuitStatuses => Len(HandlerCalls) = 0

\* a validated handler ran on a conditional request that decided nothing
C1_Witness ==
    /\ pc = "done"
    /\ Len(HandlerCalls) = 1
    /\ instance = "Doc" /\ req.method = "PUT"
    /\ req.if_none_match = ETagMatcher({<<"b">>})
    /\ response.status = SuccessStatus

(* C2: a request whose path the router does not match gets a 404 whatever   *)
(* its verb, and no resource instance is created and no handler invoked.     *)
C2_NoRouteIs404 ==
    (pc \notin {"idle", "routing"} /\ ~Routed) =>
        /\ pc = "done"
        /\ outcome = "response"
        /\ response.status = 404
        /\ instance = NoInstance
        /\ calls = <<>>

C2_Witness ==
    /\ pc = "done" /\ ~Routed /\ req.method = "POST" /\ response.status = 404

(* C3: a routed request with a recognized verb for which method resolution  *)
(* finds no handler gets a 405 whose Allow header lists exactly the verb     *)
(* handlers of its resource.                                                 *)
C3_MissingKnownVerbIs405 ==
    (/\ pc = "done"
     /\ instance /= NoInstance
     /\ method = NoMethod
     /\ req.method \in RecognizedVerbs) =>
        /\ outcome = "response"
        /\ response.status = 405
        /\ "Allow" \in DOMAIN HeadersOf(response)
        /\ SeqToSet(HeadersOf(response)["Allow"]) = VerbHandlers(instance)
        /\ Len(HeadersOf(response)["Allow"]) = Cardinality(VerbHandlers(instance))

\* Feed has the attributes HEAD and TITLE, which are not callable
C3_Witness ==
    /\ pc = "done" /\ instance = "Feed" /\ req.method = "POST"
    /\ response.status = 405
    /\ HeadersOf(response)["Allow"] = <<"GET">>

(* C4: a routed request whose verb is not one of the eight recognized verbs *)
(* and for which the resource has no handler gets a 501, never a 405 and     *)
(* never a handler invocation.                                               *)
C4_MissingUnknownVerbIs501 ==
    (/\ pc = "done"
     /\ instance /= NoInstance
     /\ req.method \notin RecognizedVerbs
     /\ req.method \notin Resources[instance].callables) =>
        /\ outcome = "response"
        /\ response.status = 501
        /\ HandlerCalls = <<>>

C4_Witness ==
    /\ pc = "done" /\ instance = "Doc" /\ req.method = "PATCH"
    /\ response.status = 501

(* C5: method resolution returns the verb when the instance has a callable  *)
(* of exactly that name; else GET when the verb is HEAD and the instance has *)
(* a callable GET; else none.  Only HEAD falls back, and by one step.        *)
C5_ResolveWithHeadFallback ==
    (pc \in {"conditions", "invoke", "done"} /\ instance /= NoInstance) =>
        method = IF req.method \in Resources[instance].callables THEN req.method
                 ELSE IF req.method = "HEAD" /\ "GET" \in Resources[instance].callables
                 THEN "GET"
                 ELSE NoMethod

\* HEAD on Feed, whose own HEAD attribute is not callable, resolves to GET
C5_Witness ==
    /\ pc = "invoke" /\ instance = "Feed" /\ req.method = "HEAD" /\ method = "GET"


\* the capability was called for the current request
Computed(name) == \E i \in 1..Len(calls) : calls[i].role = name

\* the request passed the Content-MD5 check and both _get_etag and
\* _get_last_modified returned
ConditionsEvaluated ==
    /\ pc = "done"
    /\ instance /= NoInstance
    /\ method /= NoMethod
    /\ ~MD5Differs
    /\ "get_etag" \in Resources[instance].callables => Computed("get_etag")
    /\ "get_last_modified" \in Resources[instance].callables
          => Computed("get_last_modified")

\* the resource's computed ETag is present / its quote-stripped value
ETagPresent == RawETagOf(instance) /= <<>>
StrippedETag == SelectSeq(RawETagOf(instance), LAMBDA ch : ch /= Quote)

(* C6: when the computed ETag is present and passes the If-Match check, and *)
(* the quote-stripped ETag is in the If-None-Match set, the status is 304    *)
(* for GET and HEAD and 412 for every other verb, and the handler is not     *)
(* invoked.                                                                  *)
C6_IfNoneMatchRule ==
    (/\ ConditionsEvaluated
     /\ ETagPresent
     /\ InMatcher(StrippedETag, req.if_match)
     /\ InMatcher(StrippedETag, req.if_none_match)) =>
        /\ outcome = "response"
        /\ response.status = IF req.method \in {"GET", "HEAD"} THEN 304 ELSE 412
        /\ HandlerCalls = <<>>

C6_Witness ==
    /\ pc = "done" /\ instance = "Doc" /\ req.method = "PUT"
    /\ req.if_match = AnyETag
    /\ req.if_none_match = ETagMatcher({<<"a">>})
    /\ response.status = 412

(* C7: when the computed ETag is present and the If-Match set does not hold *)
(* the quote-stripped ETag, the status is 412 for every verb, whatever       *)
(* If-None-Match, If-Modified-Since and If-Unmodified-Since say; when the    *)
(* resource has no ETag, If-Match and If-None-Match cause no short-circuit: *)
(* a 304 or 412 then comes from the Last-Modified comparison alone.          *)
C7_IfMatchRule ==
    /\ (ConditionsEvaluated /\ ETagPresent /\ ~InMatcher(StrippedETag, req.if_match)) =>
          /\ outcome = "response"
          /\ response.status = 412
    /\ (ConditionsEvaluated /\ ~ETagPresent /\ response.status \in {304, 412}) =>
          /\ LastModifiedOf(instance) /= NoDate
          /\ \/ /\ req.if_modified_since /= NoDate
                /\ LastModifiedOf(instance) <= req.if_modified_since
             \/ /\ req.if_unmodified_since /= NoDate
                /\ LastModifiedOf(instance) > req.if_unmodified_since

\* If-Match fails while If-None-Match and If-Modified-Since would both say 304
C7_Witness ==
    /\ pc = "done" /\ instance = "Doc" /\ req.method = "GET"
    /\ req.if_match = ETagMatcher({<<"b">>})
    /\ req.if_none_match = ETagMatcher({<<"a">>})
    /\ req.if_modified_since = 3
    /\ response.status = 412

(* C8: on a resource with no ETag: an absent Last-Modified lets the request *)
(* proceed; else If-Modified-Since present with Last-Modified <= it gives    *)
(* 304; else If-Unmodified-Since present with Last-Modified > it gives 412;  *)
(* else the request proceeds to the handler.                                 *)
C8_LastModifiedRule ==
    (ConditionsEvaluated /\ ~ETagPresent) =>
        LET lm == LastModifiedOf(instance)
            expected ==
                IF lm = NoDate THEN 0
                ELSE IF req.if_modified_since /= NoDate /\ lm <= req.if_modified_since
                THEN 304
                ELSE IF req.if_unmodified_since /= NoDate /\ lm > req.if_unmodified_since
                THEN 412
                ELSE 0
        IN  IF expected = 0
            THEN \/ outcome = "raised" /\ HandlerCalls = <<>>
                 \/ /\ outcome = "response"
                    /\ response.status = SuccessStatus
                    /\ Len(HandlerCalls) = 1
            ELSE /\ outcome = "response"
                 /\ response.status = expected
                 /\ HandlerCalls = <<>>

\* If-Unmodified-Since earlier than Last-Modified, no If-Modified-Since
C8_Witness ==
    /\ pc = "done" /\ instance = "Feed"
    /\ req.if_modified_since = NoDate
    /\ req.if_unmodified_since = 1
    /\ response.status = 412

(* C9: a routed request with a resolved handler whose Content-MD5 header    *)
(* differs from the MD5 digest of the body gets a 400 with the message       *)
(* "The Content-MD5 request header does not match the body.", and neither    *)
(* the handler nor the ETag / Last-Modified capabilities are invoked; with   *)
(* the header absent or equal to the digest the check never short-circuits. *)
C9_ContentMD5 ==
    /\ (pc = "done" /\ instance /= NoInstance /\ method /= NoMethod /\ MD5Differs) =>
          /\ outcome = "response"
          /\ response.status = 400
          /\ response.body =
                ErrorBody("The Content-MD5 request header does not match the body.")
          /\ calls = <<>>
    /\ (pc = "done" /\ ~MD5Differs) => response.status /= 400

C9_Witness ==
    /\ pc = "done" /\ instance = "Item" /\ req.method = "POST"
    /\ req.has_md5 /\ req.md5 = "deadbeef" /\ req.body = <<"x">>
    /\ response.status = 400

\* the pattern matches the whole value
FullMatch(re, value) == (Len(value) + 1) \in Ends(re, value, 1)

\* the value satisfies the rule set found for the parameter, if there is one
SatisfiesRules(inst, name, param, value) ==
    LET rules == RulesFor(inst, name, param)
    IN  rules.found =>
          /\ value /= None
          /\ value /= <<>>
          /\ rules.rule.has_re => FullMatch(rules.rule.re, value)

(* C10: no handler or capability is invoked with an argument that violates  *)
(* the parameter's rule set: a ruled value that is absent, empty or does not *)
(* fully match the rule's pattern raises a ValidationError before the call;  *)
(* when every ruled parameter is non-empty and fully matches, the call       *)
(* happens with each value passed through unchanged.                         *)
C10_ValidationGatesInvocation ==
    /\ \A i \in 1..Len(calls) :
          LET declared == Tail(Resources[instance].args[calls[i].name])
          IN  \A k \in 1..Len(declared) :
                 SatisfiesRules(instance, calls[i].name, declared[k], calls[i].params[k])
    /\ (/\ pc = "done"
        /\ ConditionsEvaluated
        /\ response.status \notin {304, 412}
        /\ LET declared == Tail(Resources[instance].args[method])
           IN  \A k \in 1..Len(declared) :
                  SatisfiesRules(instance, method, declared[k],
                                 BindParam(declared[k], path_params, req))) =>
          /\ Len(HandlerCalls) = 1
          /\ LET declared == Tail(Resources[instance].args[method])
             IN  HandlerCalls[1].params =
                    [k \in 1..Len(declared) |-> BindParam(declared[k], path_params, req)]

\* a ValidationException is raised for the current request: while binding a
\* capability in _handle_conditions, or while binding the handler when the
\* conditions returned no response
BindingFails ==
    /\ instance /= NoInstance
    /\ method /= NoMethod
    /\ \E c \in {_handle_conditions(instance, path_params, req)} :
          \/ c.raised
          \/ /\ c.status = 0
             /\ _call_dynamic_method(instance, method, path_params, req).raised

(* C11: a request whose parameter validation fails, while binding the       *)
(* handler or one of the ETag / Last-Modified capabilities, still ends in a  *)
(* response with status 400 and an error body; the ValidationError never     *)
(* leaves the entry point of the application.                                *)
C11_ValidationFailureIs400 ==
    /\ outcome /= "raised"
    /\ (pc = "done" /\ BindingFails) =>
          /\ outcome = "response"
          /\ response.status = 400
          /\ response.body.kind = "error"

\* the non-empty default headers of a resource type: the quoted ETag and the
\* serialized Last-Modified date
ExpectedDefaults(t) ==
    [k \in (IF RawETagOf(t) /= <<>> THEN {"ETag"} ELSE {})
           \cup (IF LastModifiedOf(t) /= NoDate THEN {"Last-Modified"} ELSE {}) |->
        IF k = "ETag"
        THEN <<Quote>> \o SelectSeq(RawETagOf(t), LAMBDA ch : ch /= Quote) \o <<Quote>>
        ELSE HttpDate[LastModifiedOf(t)]]

(* C12: in the response of a successful invocation every header the handler *)
(* supplied keeps the handler's value, every non-empty default (ETag,        *)
(* Last-Modified) the handler did not supply is present with its computed    *)
(* value, and a handler returning a plain body gets exactly the non-empty    *)
(* defaults.                                                                 *)
C12_HeaderMerge ==
    (pc = "done" /\ Len(HandlerCalls) = 1) =>
        LET ret == HandlerReturn(instance, method)
            defaults == ExpectedDefaults(instance)
            final == HeadersOf(response)
        IN  /\ outcome = "response"
            /\ response.status = SuccessStatus
            /\ \A k \in DOMAIN ret.headers :
                  k \in DOMAIN final /\ final[k] = ret.headers[k]
            /\ \A k \in DOMAIN defaults \ DOMAIN ret.headers :
                  k \in DOMAIN final /\ final[k] = defaults[k]
            /\ ~ret.mini => final = defaults

\* a handler that supplied an empty Last-Modified keeps it, next to the
\* default ETag
C12_Witness ==
    /\ pc = "done" /\ Len(HandlerCalls) = 1
    /\ instance = "Doc" /\ method = "PUT"
    /\ HeadersOf(response) =
          [k \in {"ETag", "Last-Modified"} |->
              IF k = "ETag" THEN <<Quote, "a", Quote>> ELSE <<>>]

\* the entries the kept response's header mapping holds now
EarlierHeadersNow ==
    IF earlier.ref \in SharedDicts THEN heap[earlier.ref] ELSE earlier.headers

(* C20: every response has a header mapping of its own: the response of a   *)
(* later request never refers to the mapping of the response kept from an    *)
(* earlier request, and handling a later request never adds, removes or      *)
(* changes an entry of that earlier response's mapping; this holds for the   *)
(* 400, 404, 405 and 501 responses too.                                      *)
C20_FreshHeaderMapping ==
    earlier /= NoEarlier =>
        /\ EarlierHeadersNow = earlier.headers
        /\ outcome = "response" => response.headers /= earlier.ref

\* what the caller gets from a run that returned r, or that raised
Returned(r) ==
    [outcome |-> "response", status |-> r.response.status, body |-> r.response.body,
     headers |-> r.heap[r.response.headers]]
Raised == [outcome |-> "raised", status |-> 0, body |-> NoBody, headers |-> EmptyDict]

\* what a request gets when it is the only one the application ever handles
RunAlone(q) ==
    LET h0 == [d \in DictIds |-> EmptyDict]
        parsed == _urlmap(q.path)
        m == _resolve_method(parsed.res, q.method)
        c == _handle_conditions(parsed.res, parsed.path_params, q)
        d == _call_dynamic_method(parsed.res, m, parsed.path_params, q)
        ret == HandlerReturn(parsed.res, m)
    IN  IF ~parsed.match THEN Returned(_get_response_404(h0))
        ELSE IF m = NoMethod
        THEN IF q.method \in KnownVerbs
             THEN Returned(_get_response_405(h0, parsed.res))
             ELSE Returned(_get_response_501(h0, parsed.res))
        ELSE IF c.raised THEN Raised
        ELSE IF HasResponse(c) THEN Returned(ConditionResponse(h0, c))
        ELSE IF d.raised THEN Raised
        ELSE [outcome |-> "response", status |-> SuccessStatus, body |-> ret.body,
              headers |-> MergeHeaders(ret.headers, c.headers)]

(* C13: however the runs of several threads interleave, each run ends as    *)
(* its request would end when handled alone (same status, headers and body); *)
(* the Allow header of a 405 or 501 response lists the verb handlers of the  *)
(* resource that request addressed.                                          *)
C13_ConcurrentRunsIsolated ==
    \A t \in Threads :
        threads[t].pc = "done" =>
            /\ [outcome |-> threads[t].outcome,
                status |-> threads[t].response.status,
                body |-> threads[t].response.body,
                headers |-> threads[t].seen] = RunAlone(threads[t].req)
            /\ threads[t].response.status \in {405, 501} =>
                  SeqToSet(threads[t].seen["Allow"]) = VerbHandlers(threads[t].instance)

\* the value without its double quotes
WithoutQuotes(v) == SelectSeq(v, LAMBDA ch : ch /= Quote)

\* the capability exists and returned a non-empty value
RawPresent == raw.has /\ raw.value /= None /\ raw.value /= <<>>

(* C14: a non-empty value returned by get_etag gives an ETag that is the    *)
(* value with every double quote removed, between one leading and one        *)
(* trailing double quote; an empty or absent value, or a resource without    *)
(* get_etag, gives no ETag; stripping the quotes of the computed ETag gives  *)
(* the quote-free value back.                                                *)
C14_ETagQuoting ==
    /\ pc \in {"etag", "compared"} =>
          IF RawPresent
          THEN LET etag == default_headers["ETag"]
               IN  /\ Len(etag) = Len(WithoutQuotes(raw.value)) + 2
                   /\ etag[1] = Quote
                   /\ etag[Len(etag)] = Quote
                   /\ SubSeq(etag, 2, Len(etag) - 1) = WithoutQuotes(raw.value)
          ELSE default_headers["ETag"] = None
    /\ (pc = "compared" /\ RawPresent) => stripped = WithoutQuotes(raw.value)

\* a value with a double quote in the middle
C14_Witness ==
    /\ pc = "compared"
    /\ raw = [has |-> TRUE, value |-> <<"a", Quote, "b">>]
    /\ default_headers["ETag"] = <<Quote, "a", "b", Quote>>
    /\ stripped = <<"a", "b">>

(* C15: the ETag decision comes before the Last-Modified one: when the ETag *)
(* step decides 304 or 412 that is the status of the response whatever       *)
(* If-Modified-Since and If-Unmodified-Since say; when it returns 0 the      *)
(* decision is the result of the Last-Modified rule.                         *)
C15_ETagBeforeLastModified ==
    ConditionsEvaluated =>
        LET etag_status == _handle_condition_etag(req, default_headers["ETag"])
            lm_status == _handle_condition_last_modified(req, LastModifiedOf(instance))
        IN  /\ etag_status \in {304, 412} =>
                  outcome = "response" /\ response.status = etag_status
            /\ (etag_status = 0 /\ lm_status \in {304, 412}) =>
                  outcome = "response" /\ response.status = lm_status
            /\ (etag_status = 0 /\ lm_status \notin {304, 412}) =>
                  response.status \notin {304, 412}

\* If-Match fails (412) on a GET whose If-Modified-Since alone would give 304
C15_Witness ==
    /\ ConditionsEvaluated
    /\ instance = "Doc" /\ req.method = "GET"
    /\ req.if_match = ETagMatcher({<<"b">>})
    /\ req.if_modified_since = 2
    /\ _handle_condition_last_modified(req, LastModifiedOf(instance)) = 304
    /\ response.status = 412

C17_SameDefaultsOnShortCircuit ==
    (pc = "done" /\ outcome = "response" /\ response.status \in {304, 412}) =>
        HeadersOf(response) = ExpectedDefaults(instance)

\* the places a value is looked up in, first to last
ParamSources == <<path_params, req.GET, req.POST>>

\* the value of the first source that has the name, or None
FirstSource(param) ==
    LET having == {i \in 1..Len(ParamSources) : param \in DOMAIN ParamSources[i]}
    IN  IF having = {} THEN None
        ELSE ParamSources[CHOOSE i \in having : \A j \in having : i <= j][param]

(* C18: every capability is called with one argument per declared          *)
(* parameter (the receiver excluded), in declared order: the request object  *)
(* for "request", else the path parameter of that name, else the query       *)
(* parameter, else the form parameter, else None.                            *)
C18_BindingPrecedence ==
    \A i \in 1..Len(calls) :
        LET declared == Tail(Resources[instance].args[calls[i].name])
        IN  /\ Len(calls[i].params) = Len(declared)
            /\ \A k \in 1..Len(declared) :
                  calls[i].params[k] =
                     IF declared[k] = "request" THEN RequestObject
                     ELSE FirstSource(declared[k])

\* the query value of id shadows the form value, and name comes from the form
C18_Witness ==
    /\ pc = "done"
    /\ instance = "Item" /\ method = "POST"
    /\ path_params = EmptyDict
    /\ "id" \in DOMAIN req.GET /\ req.GET["id"] = <<"1">>
    /\ "id" \in DOMAIN req.POST /\ req.POST["id"] = <<"a", "1">>
    /\ "name" \notin DOMAIN req.GET
    /\ "name" \in DOMAIN req.POST
    /\ Len(HandlerCalls) = 1
    /\ HandlerCalls[1].params = <<<<"1">>, <<"b">>>>

\* the verbs the Allow header of the resource would list
Advertised(t) == SeqToSet(_get_allowed_methods(t))

(* C19: method resolution yields a handler only for a verb the Allow header *)
(* of the resource lists, or for HEAD when GET is listed; a request whose    *)
(* verb names another attribute of the resource (get_etag,                   *)
(* get_last_modified) never has that attribute invoked as its handler and    *)
(* ends in 405 or 501.                                                       *)
C19_ResolvableIsAdvertised ==
    /\ (instance /= NoInstance /\ method /= NoMethod) =>
          \/ req.method \in Advertised(instance)
          \/ req.method = "HEAD" /\ "GET" \in Advertised(instance)
    /\ \A i \in 1..Len(HandlerCalls) :
          HandlerCalls[i].name \notin {"get_etag", "get_last_modified"}
    /\ (/\ pc = "done"
        /\ instance /= NoInstance
        /\ req.method \in {"get_etag", "get_last_modified"}) =>
          outcome = "response" /\ response.status \in {405, 501}

====
